---- MODULE Spec2Model ----
(***************************************************************************)
(* A model of `please`: the repository scanner (src/src/project.rs,        *)
(* src/src/directory.rs), the batch status/pull dispatcher and the branch  *)
(* cleaner (src/src/commands.rs), the git commands (src/src/git.rs) and    *)
(* the resolution of the root (src/src/main.rs).                           *)
(*                                                                         *)
(* Strings are sequences of one-character strings, so that trimming and    *)
(* ASCII case folding are computed character by character.  A path is the  *)
(* sequence of its normal components; the empty sequence is a path without *)
(* a final component ("/"), for which Path::file_name() is None.           *)
(***************************************************************************)
EXTENDS Integers, Sequences, FiniteSets, TLC

VARIABLES
    pc,          \* position of the program
    rootPath,    \* the resolved discovery root (a path)
    tree,        \* directory entries below the root (paths relative to it)
    files,       \* entries below the root that are not directories: is_dir()
                 \* is false of them (a regular file, an entry that cannot
                 \* be inspected)
    unreadable,  \* directories (relative; <<>> is the root) fs::read_dir fails on
    enumOrder,   \* the order in which fs::read_dir yields names
    scanned,     \* result of scan(rootPath): [ok, err, projects, visited]
    command,     \* the subcommand: "list", "status" or "pull"
    selector,    \* the <name> argument of status / pull
    queue,       \* projects still to be handed to for_project
    current,     \* the project for_project is working on; in a cleanup, the
                 \* current branch as read
    ri,          \* index of the next repository of `current`
    child,       \* the git process in flight
    spawned,     \* every process spawned so far: [arg, cwd], or [arg, args]
    outcomes,    \* exit status of every process waited for
    out,         \* the lines written to the writer
    result,      \* the Result the handler returned
    input,       \* a line read from stdin (user_confirmed)
    confirmed,   \* what user_confirmed returned for `input`
    branches,    \* a branch list (determine_target)
    target,      \* what determine_target returned for `branches`
    checkedOut,  \* the branch checked out in the working directory's repository
    localBranches, \* the local branches of that repository
    worktrees,   \* the branches checked out in its linked worktrees
    cli,         \* the parsed command line: [path, override_default, command]
    env          \* the environment: variable name -> value, if defined

vars == <<pc, rootPath, tree, files, unreadable, enumOrder, scanned, command,
          selector, queue, current, ri, child, spawned, outcomes, out, result,
          input, confirmed, branches, target, checkedOut, localBranches,
          worktrees, cli, env>>

fsVars == <<rootPath, tree, files, unreadable, enumOrder>>
batchVars == <<command, selector, queue, current, ri, child, spawned, outcomes, out, result>>
pureVars == <<input, confirmed, branches, target>>
hostVars == <<checkedOut, localBranches, worktrees, cli, env>>

-----------------------------------------------------------------------------
(* Bounds of the model *)

\* entries below the root, in trees handed to the scanner alone
MaxNodes == 7
\* entries below the root, in trees handed to a batch operation
MaxBatchNodes == 5
\* characters of a line typed by the user
MaxInputLen == 4
\* branches of a branch list
MaxBranches == 3

-----------------------------------------------------------------------------
(* Strings *)

None == [some |-> FALSE]
Some(v) == [some |-> TRUE, val |-> v]

UpperToLower ==
    [c \in {"A","B","C","D","E","F","G","H","I","J","K","L","M",
            "N","O","P","Q","R","S","T","U","V","W","X","Y","Z"} |->
        CASE c = "A" -> "a" [] c = "B" -> "b" [] c = "C" -> "c" [] c = "D" -> "d"
          [] c = "E" -> "e" [] c = "F" -> "f" [] c = "G" -> "g" [] c = "H" -> "h"
          [] c = "I" -> "i" [] c = "J" -> "j" [] c = "K" -> "k" [] c = "L" -> "l"
          [] c = "M" -> "m" [] c = "N" -> "n" [] c = "O" -> "o" [] c = "P" -> "p"
          [] c = "Q" -> "q" [] c = "R" -> "r" [] c = "S" -> "s" [] c = "T" -> "t"
          [] c = "U" -> "u" [] c = "V" -> "v" [] c = "W" -> "w" [] c = "X" -> "x"
          [] c = "Y" -> "y" [] c = "Z" -> "z"]

\* u8::to_ascii_lowercase
to_ascii_lowercase(c) ==
    IF c \in DOMAIN UpperToLower THEN UpperToLower[c] ELSE c

\* str::eq_ignore_ascii_case
eq_ignore_ascii_case(a, b) ==
    /\ Len(a) = Len(b)
    /\ \A i \in 1..Len(a) : to_ascii_lowercase(a[i]) = to_ascii_lowercase(b[i])

\* char::is_whitespace, on the characters of the model
is_whitespace(c) ==
    c \in {" ", "\n", "\t", "\r"}

RECURSIVE trim_start(_)
\* str::trim_start
trim_start(s) ==
    IF s # <<>> /\ is_whitespace(Head(s)) THEN trim_start(Tail(s)) ELSE s

RECURSIVE trim_end(_)
\* str::trim_end
trim_end(s) ==
    IF s # <<>> /\ is_whitespace(s[Len(s)])
    THEN trim_end(SubSeq(s, 1, Len(s) - 1))
    ELSE s

\* str::trim
trim(s) ==
    trim_end(trim_start(s))

-----------------------------------------------------------------------------
(* src/src/directory.rs *)

GIT_DIR == <<".", "g", "i", "t">>
NAME_UNAVAILABLE ==
    <<"N","a","m","e","_","U","n","a","v","a","i","l","a","b","l","e">>

\* Path::file_name(): the final component, None for a path that has none
file_name(path) ==
    IF Len(path) = 0 THEN None ELSE Some(path[Len(path)])

\* names are valid UTF-8, so OsStr::to_str() succeeds on a final component
get_name(path) ==
    IF file_name(path).some THEN file_name(path).val ELSE NAME_UNAVAILABLE

\* Directory::from(PathBuf)
Directory(path) ==
    [name |-> get_name(path), path |-> path]

\* the path of an entry, relative to the root
Rel(path) ==
    SubSeq(path, Len(rootPath) + 1, Len(path))

\* a listing that keeps the entries that are not directories
read_dirs_keeps_files(path) ==
    IF Rel(path) \in unreadable
    THEN [ok |-> FALSE, err |-> [kind |-> "ReadDir", path |-> path], dirs |-> <<>>]
    ELSE LET kids == SelectSeq(enumOrder,
                        LAMBDA n : Append(Rel(path), n) \in tree)
         IN  [ok |-> TRUE, err |-> None,
              dirs |-> [i \in 1..Len(kids) |-> Directory(Append(path, kids[i]))]]

\* a listing that takes a directory below the root that cannot be listed for
\* an empty one
read_dirs_skips_unlistable(path) ==
    IF Rel(path) \in unreadable /\ path = rootPath
    THEN [ok |-> FALSE, err |-> [kind |-> "ReadDir", path |-> path], dirs |-> <<>>]
    ELSE LET kids == SelectSeq(enumOrder,
                        LAMBDA n : /\ Rel(path) \notin unreadable
                                   /\ Append(Rel(path), n) \in tree
                                   /\ Append(Rel(path), n) \notin files)
         IN  [ok |-> TRUE, err |-> None,
              dirs |-> [i \in 1..Len(kids) |-> Directory(Append(path, kids[i]))]]

\* fs::read_dir(path) fails, or yields the entries of path in enumeration
\* order; the entries that are directories are kept.
read_dirs(path) ==
    IF Rel(path) \in unreadable
    THEN [ok |-> FALSE, err |-> [kind |-> "ReadDir", path |-> path], dirs |-> <<>>]
    ELSE LET kids == SelectSeq(enumOrder,
                        LAMBDA n : /\ Append(Rel(path), n) \in tree
                                   /\ Append(Rel(path), n) \notin files)
         IN  [ok |-> TRUE, err |-> None,
              dirs |-> [i \in 1..Len(kids) |-> Directory(Append(path, kids[i]))]]

contains_git(dirs) ==
    \E i \in 1..Len(dirs) : GIT_DIR = dirs[i].name

-----------------------------------------------------------------------------
(* src/src/project.rs *)

Project(name, path, repos) ==
    [name |-> name, path |-> path, repos |-> repos]

\* a parent-level project with an empty repository list in place of none
parent_lvl_project_with_repos(path) ==
    << Project(get_name(path), path, Some(<<>>)) >>

parent_lvl_project(path) ==
    << Project(get_name(path), path, None) >>

ScanOk(projects, repos, visited) ==
    [ok |-> TRUE, err |-> None, projects |-> projects, repos |-> repos,
     visited |-> visited]

ScanErr(err, visited) ==
    [ok |-> FALSE, err |-> err, projects |-> <<>>, repos |-> <<>>,
     visited |-> visited]

RECURSIVE scan_deeper(_, _)
RECURSIVE scan_deeper_loop(_, _, _, _, _)

\* a scanner that goes on below a directory it has found to be a repository
scan_deeper_loop_into_repos(parent_dirs, i, projects, repos, visited) ==
    IF i > Len(parent_dirs)
    THEN ScanOk(projects, repos, visited)
    ELSE LET dir  == parent_dirs[i]
             dirs == read_dirs(dir.path)
             seen == Append(visited, dir.path)
             git  == contains_git(dirs.dirs)
             rest == SelectSeq(dirs.dirs, LAMBDA d : d.name # GIT_DIR)
         IN  IF ~dirs.ok
             THEN ScanErr(dirs.err, seen)
             ELSE LET sub_dirs == scan_deeper(dir.path, rest)
                  IN  IF ~sub_dirs.ok
                      THEN ScanErr(sub_dirs.err, seen \o sub_dirs.visited)
                      ELSE scan_deeper_loop(parent_dirs, i + 1,
                                            projects \o sub_dirs.projects,
                                            IF git THEN Append(repos, dir) ELSE repos,
                                            seen \o sub_dirs.visited)

\* the body of `for dir in parent_dirs`, from the i-th directory on
scan_deeper_loop(parent_dirs, i, projects, repos, visited) ==
    IF i > Len(parent_dirs)
    THEN ScanOk(projects, repos, visited)
    ELSE LET dir  == parent_dirs[i]
             dirs == read_dirs(dir.path)
             seen == Append(visited, dir.path)
         IN  IF ~dirs.ok
             THEN ScanErr(dirs.err, seen)
             ELSE IF contains_git(dirs.dirs)
             THEN scan_deeper_loop(parent_dirs, i + 1, projects,
                                   Append(repos, dir), seen)
             ELSE LET sub_dirs == scan_deeper(dir.path, dirs.dirs)
                  IN  IF ~sub_dirs.ok
                      THEN ScanErr(sub_dirs.err, seen \o sub_dirs.visited)
                      ELSE scan_deeper_loop(parent_dirs, i + 1,
                                            projects \o sub_dirs.projects,
                                            repos, seen \o sub_dirs.visited)

\* a scanner that emits a Project for every level
scan_deeper_every_level(parent_path, parent_dirs) ==
    LET r == scan_deeper_loop(parent_dirs, 1, <<>>, <<>>, <<>>)
    IN  IF ~r.ok
        THEN r
        ELSE ScanOk(Append(r.projects,
                           Project(get_name(parent_path), parent_path, Some(r.repos))),
                    <<>>, r.visited)

\* a scanner that emits the Project of a level before those found below it
scan_deeper_level_first(parent_path, parent_dirs) ==
    LET r == scan_deeper_loop(parent_dirs, 1, <<>>, <<>>, <<>>)
    IN  IF ~r.ok
        THEN r
        ELSE IF r.repos # <<>>
        THEN ScanOk(<<Project(get_name(parent_path), parent_path, Some(r.repos))>>
                        \o r.projects,
                    <<>>, r.visited)
        ELSE ScanOk(r.projects, <<>>, r.visited)

scan_deeper(parent_path, parent_dirs) ==
    LET r == scan_deeper_loop(parent_dirs, 1, <<>>, <<>>, <<>>)
    IN  IF ~r.ok
        THEN r
        ELSE IF r.repos # <<>>
        THEN ScanOk(Append(r.projects,
                           Project(get_name(parent_path), parent_path, Some(r.repos))),
                    <<>>, r.visited)
        ELSE ScanOk(r.projects, <<>>, r.visited)

\* a scan that returns whatever scan_deeper found
scan_unchecked(path) ==
    LET dirs == read_dirs(path)
    IN  IF ~dirs.ok
        THEN ScanErr(dirs.err, <<path>>)
        ELSE IF contains_git(dirs.dirs)
        THEN ScanOk(parent_lvl_project(path), <<>>, <<path>>)
        ELSE LET r == scan_deeper(path, dirs.dirs)
             IN  IF ~r.ok
                 THEN ScanErr(r.err, <<path>> \o r.visited)
                 ELSE ScanOk(r.projects, <<>>, <<path>> \o r.visited)

\* scan(path): `visited` lists the directories read_dirs was called on
scan(path) ==
    LET dirs == read_dirs(path)
    IN  IF ~dirs.ok
        THEN ScanErr(dirs.err, <<path>>)
        ELSE IF contains_git(dirs.dirs)
        THEN ScanOk(parent_lvl_project(path), <<>>, <<path>>)
        ELSE LET r == scan_deeper(path, dirs.dirs)
             IN  IF ~r.ok
                 THEN ScanErr(r.err, <<path>> \o r.visited)
                 ELSE IF r.projects = <<>>
                 THEN ScanErr([kind |-> "NoProjectsFound"], <<path>> \o r.visited)
                 ELSE ScanOk(r.projects, <<>>, <<path>> \o r.visited)

-----------------------------------------------------------------------------
(* The file system the program is started on *)

NameA == <<"a">>
NameB == <<"b">>
NameUpperA == <<"A">>
NameAll == <<"a", "l", "l">>

ScanNames == {GIT_DIR, NameA, NameB}
BatchNames == {GIT_DIR, NameA, NameAll}
RootPaths == {<<>>, <<NameA>>}

Permutations_(S) ==
    {s \in [1..Cardinality(S) -> S] : \A x \in S : \E i \in DOMAIN s : s[i] = x}

\* The orders fs::read_dir may yield the names in.  No directory whose entries
\* are iterated over holds GIT_DIR, so its place in the order is fixed.
EnumOrders(names) ==
    {<<GIT_DIR>> \o s : s \in Permutations_(names \ {GIT_DIR})}

NoScan == [ok |-> FALSE, err |-> None, projects |-> <<>>, repos |-> <<>>, visited |-> <<>>]

\* no command line has been parsed
NoCli == [path |-> None, override_default |-> None, command |-> None]

InitIdleRun ==
    /\ scanned = NoScan
    /\ command = "none"
    /\ selector = <<>>
    /\ queue = <<>>
    /\ current = None
    /\ ri = 0
    /\ child = None
    /\ spawned = <<>>
    /\ outcomes = <<>>
    /\ out = <<>>
    /\ result = None

InitIdleBatch ==
    /\ InitIdleRun
    /\ checkedOut = None
    /\ localBranches = {}
    /\ worktrees = {}
    /\ cli = NoCli
    /\ env = <<>>

InitIdle ==
    /\ InitIdleBatch
    /\ input = <<>>
    /\ confirmed = FALSE
    /\ branches = <<>>
    /\ target = None

\* An empty root; the path the root is resolved to and the order in which the
\* file system yields the entries of a directory are fixed from the start.
InitFs(names) ==
    /\ pc = "setup"
    /\ rootPath \in RootPaths
    /\ tree = {}
    /\ files = {}
    /\ unreadable = {}
    /\ enumOrder \in EnumOrders(names)

\* a new directory below an existing one; nothing is put inside a .git
Mkdir(names, bound) ==
    /\ pc = "setup"
    /\ Cardinality(tree) < bound
    /\ \E p \in (tree \ files) \cup {<<>>}, n \in names :
          /\ Append(p, n) \notin tree
          /\ (IF p = <<>> THEN TRUE ELSE p[Len(p)] # GIT_DIR)
          /\ tree' = tree \cup {Append(p, n)}
    /\ UNCHANGED <<pc, rootPath, files, unreadable, enumOrder, scanned>>
    /\ UNCHANGED <<batchVars, pureVars, hostVars>>

\* a new regular file named .git (the gitfile of a worktree or submodule);
\* files of any other name are dropped by read_dirs and compared with nothing.
\* A tree has at most one irregular entry: one such file or one unreadable
\* directory.
Mkfile(bound) ==
    /\ pc = "setup"
    /\ Cardinality(tree) < bound
    /\ files = {} /\ unreadable = {}
    /\ \E p \in tree \cup {<<>>} :
          /\ Append(p, GIT_DIR) \notin tree
          /\ (IF p = <<>> THEN TRUE ELSE p[Len(p)] # GIT_DIR)
          /\ tree' = tree \cup {Append(p, GIT_DIR)}
          /\ files' = {Append(p, GIT_DIR)}
    /\ UNCHANGED <<pc, rootPath, unreadable, enumOrder, scanned>>
    /\ UNCHANGED <<batchVars, pureVars, hostVars>>

\* a directory among dirs (the root, or one below it) loses its read permission
Chmod(dirs) ==
    /\ pc = "setup"
    /\ files = {} /\ unreadable = {}
    /\ \E p \in dirs :
          /\ (IF p = <<>> THEN TRUE ELSE p[Len(p)] # GIT_DIR)
          /\ unreadable' = {p}
    /\ UNCHANGED <<pc, rootPath, tree, files, enumOrder, scanned>>
    /\ UNCHANGED <<batchVars, pureVars, hostVars>>

\* scan(rootPath) is called and returns
ScanCall ==
    /\ pc = "setup"
    /\ scanned' = scan(rootPath)
    /\ pc' = "scanned"
    /\ UNCHANGED <<fsVars, batchVars, pureVars, hostVars>>

InitScan ==
    /\ InitFs(ScanNames)
    /\ InitIdle

NextScan ==
    \/ Mkdir(ScanNames, MaxNodes)
    \/ Mkfile(MaxNodes)
    \/ Chmod(tree \cup {<<>>})
    \/ ScanCall

SpecScan == InitScan /\ [][NextScan]_vars

-----------------------------------------------------------------------------
(* src/src/commands.rs: user_confirmed, determine_target *)

YES_SHORT == <<"y">>
YES_LONG == <<"y", "e", "s">>

\* a comparison of the line as read, line end included
user_confirmed_untrimmed(line) ==
    eq_ignore_ascii_case(line, YES_SHORT) \/ eq_ignore_ascii_case(line, YES_LONG)

user_confirmed(line) ==
    eq_ignore_ascii_case(trim(line), YES_SHORT) \/
        eq_ignore_ascii_case(trim(line), YES_LONG)

DEVELOP == <<"d", "e", "v", "e", "l", "o", "p">>
MAIN == <<"m", "a", "i", "n">>
MASTER == <<"m", "a", "s", "t", "e", "r">>

\* Vec::contains
contains(v, x) ==
    \E i \in 1..Len(v) : v[i] = x

\* the first branch of the list that is one of the three candidates
determine_target_first_listed(list) ==
    LET hits == SelectSeq(list, LAMBDA b : b \in {DEVELOP, MAIN, MASTER})
    IN  IF hits = <<>> THEN None ELSE Some(hits[1])

determine_target(list) ==
    IF contains(list, DEVELOP) THEN Some(DEVELOP)
    ELSE IF contains(list, MAIN) THEN Some(MAIN)
    ELSE IF contains(list, MASTER) THEN Some(MASTER)
    ELSE None

\* every sequence over S of at most n elements
SeqsUpTo(S, n) ==
    UNION {[1..k -> S] : k \in 0..n}

InputChars == {"y", "Y", "e", "s", "S", "n", " ", "\n"}

BranchNames == {DEVELOP, MAIN, MASTER, <<"t", "e", "s", "t">>, <<"M", "a", "i", "n">>}

\* a line is waiting on stdin
InitConfirm ==
    /\ pc = "stdin"
    /\ input \in SeqsUpTo(InputChars, MaxInputLen)
    /\ confirmed = FALSE
    /\ branches = <<>>
    /\ target = None
    /\ rootPath = <<>> /\ tree = {} /\ files = {} /\ unreadable = {}
    /\ enumOrder = <<>>
    /\ InitIdleBatch

\* user_confirmed(&get_user_input())
UserConfirmed ==
    /\ pc = "stdin"
    /\ confirmed' = user_confirmed(input)
    /\ pc' = "answered"
    /\ UNCHANGED <<fsVars, scanned, batchVars, input, branches, target,
                   hostVars>>

SpecConfirm == InitConfirm /\ [][UserConfirmed]_vars

\* a branch list has been read
InitTarget ==
    /\ pc = "branches"
    /\ branches \in SeqsUpTo(BranchNames, MaxBranches)
    /\ target = None
    /\ input = <<>>
    /\ confirmed = FALSE
    /\ rootPath = <<>> /\ tree = {} /\ files = {} /\ unreadable = {}
    /\ enumOrder = <<>>
    /\ InitIdleBatch

\* determine_target(branches)
DetermineTarget ==
    /\ pc = "branches"
    /\ target' = determine_target(branches)
    /\ pc' = "determined"
    /\ UNCHANGED <<fsVars, scanned, batchVars, input, confirmed, branches,
                   hostVars>>

SpecTarget == InitTarget /\ [][DetermineTarget]_vars

-----------------------------------------------------------------------------
(* src/src/commands.rs: the batch dispatcher *)

GIT_STATUS == "status"
GIT_PULL == "pull"
ALL == <<"a", "l", "l">>

Ok == [ok |-> TRUE, err |-> None]
Err(e) == [ok |-> FALSE, err |-> Some(e)]

\* what a git process may end with: an exit code and the captured stdout
ProcessResults ==
    {[code |-> Some(0), stdout |-> "clean"],
     [code |-> Some(0), stdout |-> "changes"],
     [code |-> Some(1), stdout |-> ""],
     [code |-> Some(128), stdout |-> ""],
     [code |-> None, stdout |-> ""]}

Selectors == {NameAll, <<"A", "l", "L">>, NameA, NameUpperA, NameB}

\* a lookup that gives the last project of that name
find_last(projects, name) ==
    IF \E i \in 1..Len(projects) : eq_ignore_ascii_case(projects[i].name, name)
    THEN CHOOSE i \in 1..Len(projects) :
            /\ eq_ignore_ascii_case(projects[i].name, name)
            /\ \A j \in (i + 1)..Len(projects) :
                  ~eq_ignore_ascii_case(projects[j].name, name)
    ELSE 0

\* a lookup that falls back to the first project
find_or_first(projects, name) ==
    IF \E i \in 1..Len(projects) : eq_ignore_ascii_case(projects[i].name, name)
    THEN CHOOSE i \in 1..Len(projects) :
            /\ eq_ignore_ascii_case(projects[i].name, name)
            /\ \A j \in 1..(i - 1) : ~eq_ignore_ascii_case(projects[j].name, name)
    ELSE IF projects = <<>> THEN 0 ELSE 1

\* Iterator::find: the index of the first project of that name (ignoring
\* ASCII case), or 0
find(projects, name) ==
    IF \E i \in 1..Len(projects) : eq_ignore_ascii_case(projects[i].name, name)
    THEN CHOOSE i \in 1..Len(projects) :
            /\ eq_ignore_ascii_case(projects[i].name, name)
            /\ \A j \in 1..(i - 1) : ~eq_ignore_ascii_case(projects[j].name, name)
    ELSE 0

\* a dispatcher that looks for a project of the given name before it looks
\* at the wildcard
selected_by_name_first(projects, name) ==
    IF find(projects, name) # 0
    THEN [found |-> TRUE, projects |-> <<projects[find(projects, name)]>>]
    ELSE IF eq_ignore_ascii_case(ALL, name)
    THEN [found |-> TRUE, projects |-> projects]
    ELSE [found |-> FALSE, projects |-> <<>>]

\* execute_git_cmd, lines 58-68: the projects for_project is called on
selected(projects, name) ==
    IF eq_ignore_ascii_case(ALL, name)
    THEN [found |-> TRUE, projects |-> projects]
    ELSE IF find(projects, name) # 0
    THEN [found |-> TRUE, projects |-> <<projects[find(projects, name)]>>]
    ELSE [found |-> FALSE, projects |-> <<>>]

\* execute_git_cmd up to its first call of for_project, or to its return
execute_git_cmd(name, git_cmd) ==
    /\ pc = "setup"
    /\ command' = git_cmd
    /\ selector' = name
    /\ LET projects == scan(rootPath)
           sel      == selected(projects.projects, name)
       IN  /\ scanned' = projects
           /\ IF ~projects.ok
              THEN /\ result' = Some(Err(projects.err))
                   /\ queue' = <<>>
                   /\ pc' = "done"
              ELSE IF ~sel.found
              THEN /\ result' = Some(Err([kind |-> "ProjectNotFound", name |-> name]))
                   /\ queue' = <<>>
                   /\ pc' = "done"
              ELSE /\ result' = None
                   /\ queue' = sel.projects
                   /\ pc' = "for_project"
    /\ UNCHANGED <<fsVars, current, ri, child, spawned, outcomes, out, pureVars, hostVars>>

handle_status ==
    \E name \in Selectors : execute_git_cmd(name, GIT_STATUS)

handle_pull ==
    \E name \in Selectors : execute_git_cmd(name, GIT_PULL)

\* print_project
print_project(project) ==
    [kind |-> "project", name |-> project.name, path |-> project.path]

\* a for_project that runs the command in the project's own directory when
\* the project has no repository list
for_project_parent_too ==
    /\ pc = "for_project"
    /\ queue # <<>>
    /\ LET project == Head(queue)
       IN  /\ current' = Some(project)
           /\ out' = Append(out, print_project(project))
           /\ ri' = 1
           /\ spawned' = IF project.repos.some THEN spawned
                         ELSE Append(spawned, [arg |-> command, cwd |-> project.path])
           /\ pc' = IF project.repos.some /\ Len(project.repos.val) >= 1
                    THEN "custom_cwd_cmd" ELSE "for_project"
    /\ queue' = Tail(queue)
    /\ UNCHANGED <<fsVars, scanned, command, selector, child, outcomes,
                   result, pureVars, hostVars>>

\* for_project is entered: the header is written; then the first repository
\* is up, or for_project returns
for_project ==
    /\ pc = "for_project"
    /\ queue # <<>>
    /\ LET project == Head(queue)
       IN  /\ current' = Some(project)
           /\ out' = Append(out, print_project(project))
           /\ ri' = 1
           /\ pc' = IF project.repos.some /\ Len(project.repos.val) >= 1
                    THEN "custom_cwd_cmd" ELSE "for_project"
    /\ queue' = Tail(queue)
    /\ UNCHANGED <<fsVars, scanned, command, selector, child, spawned, outcomes,
                   result, pureVars, hostVars>>

\* a for_project that starts the processes of all repositories of a project
\* before it waits for the last of them
custom_cwd_cmd_eager ==
    /\ pc = "custom_cwd_cmd"
    /\ LET repo == current.val.repos.val[ri]
       IN  /\ child' = Some([arg |-> command, cwd |-> repo.path])
           /\ spawned' = Append(spawned, [arg |-> command, cwd |-> repo.path])
    /\ IF ri < Len(current.val.repos.val)
       THEN pc' = "custom_cwd_cmd" /\ ri' = ri + 1
       ELSE pc' = "print_repository" /\ ri' = ri
    /\ UNCHANGED <<fsVars, scanned, command, selector, queue, current,
                   outcomes, out, result, pureVars, hostVars>>

\* git::custom_cwd_cmd: the process is spawned in the repository
custom_cwd_cmd ==
    /\ pc = "custom_cwd_cmd"
    /\ LET repo == current.val.repos.val[ri]
       IN  /\ child' = Some([arg |-> command, cwd |-> repo.path])
           /\ spawned' = Append(spawned, [arg |-> command, cwd |-> repo.path])
    /\ pc' = "print_repository"
    /\ UNCHANGED <<fsVars, scanned, command, selector, queue, current, ri,
                   outcomes, out, result, pureVars, hostVars>>

\* git::custom_cwd_cmd: spawn() fails and unwrap() panics
custom_cwd_cmd_panics ==
    /\ pc = "custom_cwd_cmd"
    /\ pc' = "panicked"
    /\ UNCHANGED <<fsVars, scanned, batchVars, pureVars, hostVars>>

\* a line for every process result, also for one without an exit code
repository_line_for_terminated(repo, res) ==
    IF res.code = Some(0)
    THEN << [kind |-> "success", repo |-> repo.name, output |-> res.stdout] >>
    ELSE IF res.code.some
    THEN << [kind |-> "error", repo |-> repo.name, code |-> res.code.val] >>
    ELSE << [kind |-> "error", repo |-> repo.name, code |-> -1] >>

\* the line print_repository writes for a process result, if any
repository_line(repo, res) ==
    IF res.code = Some(0)
    THEN << [kind |-> "success", repo |-> repo.name, output |-> res.stdout] >>
    ELSE IF res.code.some
    THEN << [kind |-> "error", repo |-> repo.name, code |-> res.code.val] >>
    ELSE << >>

\* a batch that gives up at the first repository whose process fails
print_repository_fail_fast ==
    /\ pc = "print_repository"
    /\ child # None
    /\ \E res \in ProcessResults :
          /\ outcomes' = Append(outcomes, res)
          /\ out' = out \o repository_line(current.val.repos.val[ri], res)
          /\ IF res.code = Some(0)
             THEN /\ pc' = IF ri < Len(current.val.repos.val)
                           THEN "custom_cwd_cmd" ELSE "for_project"
                  /\ result' = result
             ELSE /\ pc' = "done"
                  /\ result' = Some(Err([kind |-> "Git", code |-> res.code]))
    /\ child' = None
    /\ ri' = ri + 1
    /\ UNCHANGED <<fsVars, scanned, command, selector, queue, current, spawned,
                   pureVars, hostVars>>

\* print_repository: the process is waited for and its line is written
print_repository ==
    /\ pc = "print_repository"
    /\ child # None
    /\ \E res \in ProcessResults :
          /\ outcomes' = Append(outcomes, res)
          /\ out' = out \o repository_line(current.val.repos.val[ri], res)
          /\ pc' = IF ri < Len(current.val.repos.val)
                   THEN "custom_cwd_cmd" ELSE "for_project"
    /\ child' = None
    /\ ri' = ri + 1
    /\ UNCHANGED <<fsVars, scanned, command, selector, queue, current, spawned,
                   result, pureVars, hostVars>>

\* execute_git_cmd returns Ok(()) after its last call of for_project
execute_git_cmd_returns ==
    /\ pc = "for_project"
    /\ queue = <<>>
    /\ result' = Some(Ok)
    /\ pc' = "done"
    /\ UNCHANGED <<fsVars, scanned, command, selector, queue, current, ri, child,
                   spawned, outcomes, out, pureVars, hostVars>>

Init ==
    /\ InitFs(BatchNames)
    /\ InitIdle

Next ==
    \/ Mkdir(BatchNames, MaxBatchNodes)
    \/ Chmod({<<>>})
    \/ handle_status
    \/ handle_pull
    \/ for_project
    \/ custom_cwd_cmd
    \/ custom_cwd_cmd_panics
    \/ print_repository
    \/ execute_git_cmd_returns

Spec == Init /\ [][Next]_vars

-----------------------------------------------------------------------------
(* src/src/git.rs: the errors and the results of the branch operations *)

GIT_CHECKOUT == "checkout"
GIT_BRANCH == "branch"
SHOW_CURRENT == <<"-", "-", "s", "h", "o", "w", "-", "c", "u", "r", "r", "e", "n", "t">>
DELETE_FLAG == <<"-", "d">>

\* enum GitError
CheckoutCode(branch, code) == [kind |-> "CheckoutCode", branch |-> branch, code |-> code]
Checkout(branch) == [kind |-> "Checkout", branch |-> branch]
PullCode(code) == [kind |-> "PullCode", code |-> code]
Pull == [kind |-> "Pull"]
DeleteCode(branch, code) == [kind |-> "DeleteCode", branch |-> branch, code |-> code]
Delete(branch) == [kind |-> "Delete", branch |-> branch]
CurrentBranchCode(code) == [kind |-> "CurrentBranchCode", code |-> code]
CurrentBranch == [kind |-> "CurrentBranch"]
ReadBranchesCode(code) == [kind |-> "ReadBranchesCode", code |-> code]
ReadBranches == [kind |-> "ReadBranches"]

\* ExitStatus::code() of a process that was waited for
ExitCodes == {Some(0), Some(1), Some(128), None}

\* a checkout that reports every failure as the uncoded one
checkout_result_uncoded(branch, code) ==
    IF code = Some(0) THEN Ok ELSE Err(Checkout(branch))

\* checkout, lines 64-68: the match on the exit code
checkout_result(branch, code) ==
    IF code = Some(0) THEN Ok
    ELSE IF code.some THEN Err(CheckoutCode(branch, code.val))
    ELSE Err(Checkout(branch))

\* pull, lines 74-81
pull_result(code) ==
    IF code = Some(0) THEN Ok
    ELSE IF code.some THEN Err(PullCode(code.val))
    ELSE Err(Pull)

\* delete, lines 88-95
delete_result(branch, code) ==
    IF code = Some(0) THEN Ok
    ELSE IF code.some THEN Err(DeleteCode(branch, code.val))
    ELSE Err(Delete(branch))

\* get_curr_branch, lines 102-106, on a failure
get_curr_branch_err(code) ==
    IF code.some THEN Err(CurrentBranchCode(code.val)) ELSE Err(CurrentBranch)

\* get_branches, lines 111-126, on a failure
get_branches_err(code) ==
    IF code.some THEN Err(ReadBranchesCode(code.val)) ELSE Err(ReadBranches)

\* str::replace("*", "")
replace_star(s) ==
    SelectSeq(s, LAMBDA c : c # "*")

RECURSIVE split(_)
\* str::split("\n")
split(s) ==
    IF \A i \in 1..Len(s) : s[i] # "\n" THEN <<s>>
    ELSE LET i == CHOOSE k \in 1..Len(s) :
                     s[k] = "\n" /\ \A j \in 1..(k - 1) : s[j] # "\n"
         IN  <<SubSeq(s, 1, i - 1)>> \o split(SubSeq(s, i + 1, Len(s)))

\* get_branches, lines 113-121: the branch list read off the captured stdout
sanitized_branches(stdout) ==
    LET lines == split(trim_end(replace_star(stdout)))
    IN  [i \in 1..Len(lines) |-> trim_start(lines[i])]

-----------------------------------------------------------------------------
(* The repository of the working directory, as git reports it *)

BranchTest == <<"t", "e", "s", "t">>
BranchMainUpper == <<"M", "a", "i", "n">>

\* the branches a repository may have, in the order `git branch` lists them
ListingOrder == <<BranchMainUpper, DEVELOP, MAIN, MASTER, BranchTest>>

\* what `git branch` prints in place of a branch when HEAD is detached
DETACHED ==
    <<"(", "H", "E", "A", "D", " ", "d", "e", "t", "a", "c", "h", "e", "d", " ",
      "a", "t", " ", "1", "a", "2", "b", "3", "c", "4", ")">>

RECURSIVE Concat(_)
Concat(seqs) ==
    IF seqs = <<>> THEN <<>> ELSE Head(seqs) \o Concat(Tail(seqs))

\* stdout of `git branch --show-current`: the branch, or nothing when HEAD is
\* detached
show_current_stdout ==
    IF checkedOut.some THEN checkedOut.val \o <<"\n">> ELSE <<>>

\* stdout of `git branch`: one line a branch; the checked-out one is marked
\* with "*", one checked out in a linked worktree with "+"
branch_stdout ==
    LET listed == SelectSeq(ListingOrder, LAMBDA b : b \in localBranches)
        line(b) == (IF checkedOut = Some(b) THEN <<"*", " ">>
                    ELSE IF b \in worktrees THEN <<"+", " ">>
                    ELSE <<" ", " ">>)
                       \o b \o <<"\n">>
    IN  (IF checkedOut.some THEN <<>> ELSE <<"*", " ">> \o DETACHED \o <<"\n">>)
            \o Concat([i \in 1..Len(listed) |-> line(listed[i])])

\* the lines a user may type; the empty one is the end of input
InputLines ==
    {<<"y", "\n">>, <<"Y", "E", "S", "\n">>, <<" ", "y", "e", "s", " ", "\n">>,
     <<"n", "\n">>, <<"y", "e", "\n">>, <<"\n">>, <<>>}

-----------------------------------------------------------------------------
(* src/src/commands.rs: handle_clean, clean; src/src/git.rs: the commands *)

\* Command::spawn: the process is started
Spawn(cmd, next) ==
    /\ child' = Some(cmd)
    /\ spawned' = Append(spawned, cmd)
    /\ pc' = next
    /\ UNCHANGED <<fsVars, scanned, command, selector, queue, current, ri,
                   outcomes, out, result, pureVars, hostVars>>

\* git::one_arg_cmd: `git branch`, `git pull`
one_arg_cmd ==
    \/ /\ pc = "get_branches"
       /\ Spawn([arg |-> GIT_BRANCH, args |-> <<>>], "get_branches.wait")
    \/ /\ pc = "pull"
       /\ Spawn([arg |-> GIT_PULL, args |-> <<>>], "pull.wait")

\* git::two_args_cmd: `git branch --show-current`, `git checkout <target>`
two_args_cmd ==
    \/ /\ pc = "get_curr_branch"
       /\ Spawn([arg |-> GIT_BRANCH, args |-> <<SHOW_CURRENT>>], "get_curr_branch.wait")
    \/ /\ pc = "checkout"
       /\ Spawn([arg |-> GIT_CHECKOUT, args |-> <<target.val>>], "checkout.wait")

\* a cleaner that deletes the branch it has switched to
three_args_cmd_on_target ==
    /\ pc = "delete"
    /\ Spawn([arg |-> GIT_BRANCH, args |-> <<DELETE_FLAG, target.val>>], "delete.wait")

\* git::three_args_cmd: `git branch -d <branch>`
three_args_cmd ==
    /\ pc = "delete"
    /\ Spawn([arg |-> GIT_BRANCH, args |-> <<DELETE_FLAG, current.val>>], "delete.wait")

\* spawn() fails and unwrap() panics
cmd_panics ==
    /\ pc \in {"get_curr_branch", "get_branches", "checkout", "pull", "delete"}
    /\ pc' = "panicked"
    /\ UNCHANGED <<fsVars, scanned, batchVars, pureVars, hostVars>>

\* a read of the current branch that goes on with an empty name when the
\* process fails
get_curr_branch_lenient ==
    /\ pc = "get_curr_branch.wait"
    /\ \E code \in ExitCodes :
          LET stdout == IF code = Some(0) THEN show_current_stdout ELSE <<>>
          IN  /\ outcomes' = Append(outcomes, [code |-> code, stdout |-> stdout])
              /\ current' = Some(trim(stdout))
              /\ result' = result
              /\ pc' = "get_branches"
    /\ child' = None
    /\ UNCHANGED <<fsVars, scanned, command, selector, queue, ri, spawned, out,
                   pureVars, hostVars>>

\* git::get_curr_branch: the process is waited for
get_curr_branch ==
    /\ pc = "get_curr_branch.wait"
    /\ \E code \in ExitCodes :
          LET stdout == IF code = Some(0) THEN show_current_stdout ELSE <<>>
          IN  /\ outcomes' = Append(outcomes, [code |-> code, stdout |-> stdout])
              /\ IF code = Some(0)
                 THEN /\ current' = Some(trim(stdout))
                      /\ result' = result
                      /\ pc' = "get_branches"
                 ELSE /\ current' = current
                      /\ result' = Some(get_curr_branch_err(code))
                      /\ pc' = "done"
    /\ child' = None
    /\ UNCHANGED <<fsVars, scanned, command, selector, queue, ri, spawned, out,
                   pureVars, hostVars>>

\* git::get_branches: the process is waited for
get_branches ==
    /\ pc = "get_branches.wait"
    /\ \E code \in ExitCodes :
          LET stdout == IF code = Some(0) THEN branch_stdout ELSE <<>>
          IN  /\ outcomes' = Append(outcomes, [code |-> code, stdout |-> stdout])
              /\ IF code = Some(0)
                 THEN /\ branches' = sanitized_branches(stdout)
                      /\ result' = result
                      /\ pc' = "clean"
                 ELSE /\ branches' = branches
                      /\ result' = Some(get_branches_err(code))
                      /\ pc' = "done"
    /\ child' = None
    /\ UNCHANGED <<fsVars, scanned, command, selector, queue, current, ri,
                   spawned, out, input, confirmed, target, hostVars>>

\* a cleaner that asks before it looks whether the branch is already the target
clean_always_asks ==
    /\ pc = "clean"
    /\ LET t == determine_target(branches)
       IN  /\ target' = t
           /\ IF t.some
              THEN /\ out' = out \o
                        << [kind |-> "plan", target |-> t.val, current |-> current.val],
                           [kind |-> "prompt"] >>
                   /\ result' = result
                   /\ pc' = "get_user_input"
              ELSE /\ out' = Append(out, [kind |-> "unable"])
                   /\ result' = Some(Ok)
                   /\ pc' = "done"
    /\ UNCHANGED <<fsVars, scanned, command, selector, queue, current, ri, child,
                   spawned, outcomes, input, confirmed, branches, hostVars>>

\* a cleaner that falls back to master when no candidate is listed
clean_falls_back ==
    /\ pc = "clean"
    /\ LET t == determine_target(branches)
           u == IF t.some THEN t ELSE Some(MASTER)
       IN  /\ target' = u
           /\ IF u.val = current.val
              THEN /\ out' = Append(out, [kind |-> "already", branch |-> current.val])
                   /\ result' = Some(Ok)
                   /\ pc' = "done"
              ELSE /\ out' = out \o
                        << [kind |-> "plan", target |-> u.val, current |-> current.val],
                           [kind |-> "prompt"] >>
                   /\ result' = result
                   /\ pc' = "get_user_input"
    /\ UNCHANGED <<fsVars, scanned, command, selector, queue, current, ri, child,
                   spawned, outcomes, input, confirmed, branches, hostVars>>

\* clean, lines 121-131 and 144-148: up to the prompt, or to the return
clean ==
    /\ pc = "clean"
    /\ LET t == determine_target(branches)
       IN  /\ target' = t
           /\ IF t.some /\ t.val = current.val
              THEN /\ out' = Append(out, [kind |-> "already", branch |-> current.val])
                   /\ result' = Some(Ok)
                   /\ pc' = "done"
              ELSE IF t.some
              THEN /\ out' = out \o
                        << [kind |-> "plan", target |-> t.val, current |-> current.val],
                           [kind |-> "prompt"] >>
                   /\ result' = result
                   /\ pc' = "get_user_input"
              ELSE /\ out' = Append(out, [kind |-> "unable"])
                   /\ result' = Some(Ok)
                   /\ pc' = "done"
    /\ UNCHANGED <<fsVars, scanned, command, selector, queue, current, ri, child,
                   spawned, outcomes, input, confirmed, branches, hostVars>>

\* a cleaner that reads the answer and goes on whatever it is
get_user_input_proceeds ==
    /\ pc = "get_user_input"
    /\ \E line \in InputLines :
          /\ input' = line
          /\ confirmed' = user_confirmed(line)
    /\ pc' = "checkout"
    /\ UNCHANGED <<fsVars, scanned, command, selector, queue, current, ri, child,
                   spawned, outcomes, out, result, branches, target, hostVars>>

\* clean, lines 134-141: the answer is read; the cleaner goes on or aborts
get_user_input ==
    /\ pc = "get_user_input"
    /\ \E line \in InputLines :
          /\ input' = line
          /\ confirmed' = user_confirmed(line)
          /\ IF user_confirmed(line)
             THEN /\ out' = out
                  /\ result' = result
                  /\ pc' = "checkout"
             ELSE /\ out' = Append(out, [kind |-> "aborting"])
                  /\ result' = Some(Ok)
                  /\ pc' = "done"
    /\ UNCHANGED <<fsVars, scanned, command, selector, queue, current, ri, child,
                   spawned, outcomes, branches, target, hostVars>>

\* get_user_input: read_line fails and expect() panics
get_user_input_panics ==
    /\ pc = "get_user_input"
    /\ pc' = "panicked on stdin"
    /\ UNCHANGED <<fsVars, scanned, batchVars, pureVars, hostVars>>

\* git::checkout: the process is waited for; git switches the branch exactly
\* when it exits with 0, which it does not for a branch that is missing or
\* checked out in a linked worktree
checkout ==
    /\ pc = "checkout.wait"
    /\ \E code \in ExitCodes :
          /\ (code = Some(0)) => (target.val \in localBranches \ worktrees)
          /\ outcomes' = Append(outcomes, [code |-> code, stdout |-> <<>>])
          /\ checkedOut' = IF code = Some(0) THEN Some(target.val) ELSE checkedOut
          /\ IF checkout_result(target.val, code).ok
             THEN /\ result' = result
                  /\ pc' = "pull"
             ELSE /\ result' = Some(checkout_result(target.val, code))
                  /\ pc' = "done"
    /\ child' = None
    /\ UNCHANGED <<fsVars, scanned, command, selector, queue, current, ri,
                   spawned, out, pureVars, localBranches, worktrees, cli, env>>

\* a cleaner that deletes the branch also after a failed pull
pull_then_delete_anyway ==
    /\ pc = "pull.wait"
    /\ \E code \in ExitCodes :
          /\ outcomes' = Append(outcomes, [code |-> code, stdout |-> <<>>])
          /\ out' = IF pull_result(code).ok
                    THEN Append(out, [kind |-> "pulled"]) ELSE out
          /\ result' = result
          /\ pc' = "delete"
    /\ child' = None
    /\ UNCHANGED <<fsVars, scanned, command, selector, queue, current, ri,
                   spawned, pureVars, hostVars>>

\* a cleaner that goes back to the branch it came from when the pull fails
pull_with_rollback ==
    /\ pc = "pull.wait"
    /\ \E code \in ExitCodes :
          /\ outcomes' = Append(outcomes, [code |-> code, stdout |-> <<>>])
          /\ IF pull_result(code).ok
             THEN /\ out' = Append(out, [kind |-> "pulled"])
                  /\ result' = result
                  /\ checkedOut' = checkedOut
                  /\ pc' = "delete"
             ELSE /\ out' = out
                  /\ result' = Some(pull_result(code))
                  /\ checkedOut' = IF current.val \in localBranches
                                   THEN Some(current.val) ELSE None
                  /\ pc' = "done"
    /\ child' = None
    /\ UNCHANGED <<fsVars, scanned, command, selector, queue, current, ri,
                   spawned, pureVars, localBranches, worktrees, cli, env>>

\* git::pull: the process is waited for
pull ==
    /\ pc = "pull.wait"
    /\ \E code \in ExitCodes :
          /\ outcomes' = Append(outcomes, [code |-> code, stdout |-> <<>>])
          /\ IF pull_result(code).ok
             THEN /\ out' = Append(out, [kind |-> "pulled"])
                  /\ result' = result
                  /\ pc' = "delete"
             ELSE /\ out' = out
                  /\ result' = Some(pull_result(code))
                  /\ pc' = "done"
    /\ child' = None
    /\ UNCHANGED <<fsVars, scanned, command, selector, queue, current, ri,
                   spawned, pureVars, hostVars>>

\* git::delete: the process is waited for; git removes the branch exactly when
\* it exits with 0, which it does for an existing branch that is not checked out
delete ==
    /\ pc = "delete.wait"
    /\ \E code \in ExitCodes :
          /\ (code = Some(0)) =>
                (current.val \in localBranches \ worktrees
                    /\ checkedOut # Some(current.val))
          /\ outcomes' = Append(outcomes, [code |-> code, stdout |-> <<>>])
          /\ localBranches' = IF code = Some(0)
                              THEN localBranches \ {current.val} ELSE localBranches
          /\ out' = IF delete_result(current.val, code).ok
                    THEN Append(out, [kind |-> "deleted", branch |-> current.val])
                    ELSE out
          /\ result' = Some(delete_result(current.val, code))
          /\ pc' = "done"
    /\ child' = None
    /\ UNCHANGED <<fsVars, scanned, command, selector, queue, current, ri,
                   spawned, pureVars, checkedOut, worktrees, cli, env>>

\* handle_clean is about to run in a repository: HEAD is on one of its
\* branches or detached; some of the other branches may be checked out in
\* linked worktrees
InitRepository ==
    /\ pc = "get_curr_branch"
    /\ localBranches \in SUBSET BranchNames
    /\ checkedOut \in {None} \cup {Some(b) : b \in localBranches}
    /\ worktrees \in SUBSET {b \in localBranches : checkedOut # Some(b)}
    /\ cli = NoCli
    /\ env = <<>>
    /\ rootPath = <<>> /\ tree = {} /\ files = {} /\ unreadable = {}
    /\ enumOrder = <<>>
    /\ InitIdleRun
    /\ input = <<>>
    /\ confirmed = FALSE
    /\ branches = <<>>
    /\ target = None

handle_clean ==
    \/ two_args_cmd
    \/ one_arg_cmd
    \/ three_args_cmd
    \/ cmd_panics
    \/ get_curr_branch
    \/ get_branches
    \/ clean
    \/ get_user_input
    \/ get_user_input_panics
    \/ checkout
    \/ pull
    \/ delete

\* a repository without linked worktrees
InitClean ==
    /\ InitRepository
    /\ worktrees = {}

SpecClean == InitClean /\ [][handle_clean]_vars

SpecRepository == InitRepository /\ [][handle_clean]_vars

-----------------------------------------------------------------------------
(* A run of either kind: a batch over a tree, or a cleanup in a repository *)

InitRun ==
    Init \/ InitClean

NextRun ==
    Next \/ handle_clean

SpecRun == InitRun /\ [][NextRun]_vars

-----------------------------------------------------------------------------
(* src/src/main.rs: main, resolve_path *)

DEFAULT_DEV_DIR_VAR == "DEV_DIR"

\* the state of an environment variable
Unset == [set |-> FALSE]
NotUnicode == [set |-> TRUE, unicode |-> FALSE]
Value(val) == [set |-> TRUE, unicode |-> TRUE, val |-> val]

EnvNames == {DEFAULT_DEV_DIR_VAR, "MY_DIR"}

\* the paths of the environment and the one of the --path option
EnvPaths == {<<NameA>>, <<NameB>>}
ArgPath == <<NameA, NameB>>

Envs ==
    [EnvNames -> {Unset, NotUnicode} \cup {Value(p) : p \in EnvPaths}]

\* enum Commands, with the names given to status and pull
CommandsOf ==
    {[kind |-> "list"], [kind |-> "clean"],
     [kind |-> "status", name |-> NameA], [kind |-> "pull", name |-> NameAll]}

Clis ==
    [path : {None, Some(ArgPath)},
     override_default : {None} \cup {Some(n) : n \in EnvNames},
     command : {None} \cup {Some(c) : c \in CommandsOf}]

\* env::var(name).with_context(|| format!("{} is not defined!", name))
env_var(name) ==
    IF env[name].set /\ env[name].unicode
    THEN [ok |-> TRUE, path |-> env[name].val, err |-> None]
    ELSE [ok |-> FALSE, path |-> <<>>, err |-> Some([kind |-> "NotDefined", name |-> name])]

\* a resolution that turns to the default variable when the overriding one
\* is not defined
resolve_path_falls_back(override_default, path_arg) ==
    IF path_arg.some
    THEN [ok |-> TRUE, path |-> path_arg.val, err |-> None]
    ELSE IF override_default.some /\ env_var(override_default.val).ok
    THEN env_var(override_default.val)
    ELSE env_var(DEFAULT_DEV_DIR_VAR)

resolve_path(override_default, path_arg) ==
    IF path_arg.some
    THEN [ok |-> TRUE, path |-> path_arg.val, err |-> None]
    ELSE IF override_default.some
    THEN env_var(override_default.val)
    ELSE env_var(DEFAULT_DEV_DIR_VAR)

\* the exit status of the process: main returns a Result
exit_code ==
    IF result.some /\ ~result.val.ok THEN 1 ELSE 0

\* main, line 30: resolve_path(..).and_then(..) up to the closure
main ==
    /\ pc = "main"
    /\ LET path == resolve_path(cli.override_default, cli.path)
       IN  IF path.ok
           THEN /\ rootPath' = path.path
                /\ result' = result
                /\ pc' = "match"
           ELSE /\ rootPath' = rootPath
                /\ result' = Some(Err(path.err.val))
                /\ pc' = "exit"
    /\ UNCHANGED <<tree, files, unreadable, enumOrder, scanned, command, selector,
                   queue, current, ri, child, spawned, outcomes, out, pureVars,
                   hostVars>>

\* the arm of a subcommand: its handler is called with the resolved path
Arm(kind, git_cmd, handler) ==
    /\ cli.command.some
    /\ cli.command.val.kind = kind
    /\ command' = git_cmd
    /\ selector' = IF kind \in {"status", "pull"} THEN cli.command.val.name ELSE selector
    /\ pc' = handler
    /\ UNCHANGED <<fsVars, scanned, queue, current, ri, child, spawned, outcomes,
                   out, result, pureVars, hostVars>>

\* Some(Commands::List) => handle_list(&path, ..)
main_List ==
    /\ pc = "match"
    /\ Arm("list", "list", "handle_list")

\* Some(Commands::Status { name }) => handle_status(&path, name)
main_Status ==
    /\ pc = "match"
    /\ Arm("status", GIT_STATUS, "handle_status")

\* Some(Commands::Pull { name }) => handle_pull(&path, name)
main_Pull ==
    /\ pc = "match"
    /\ Arm("pull", GIT_PULL, "handle_pull")

\* Some(Commands::Clean) => handle_clean()
main_Clean ==
    /\ pc = "match"
    /\ Arm("clean", "clean", "handle_clean")

\* None => println!("No command given. ..."); Ok(())
main_None ==
    /\ pc = "match"
    /\ cli.command = None
    /\ out' = Append(out, [kind |-> "no command"])
    /\ result' = Some(Ok)
    /\ pc' = "exit"
    /\ UNCHANGED <<fsVars, scanned, command, selector, queue, current, ri, child,
                   spawned, outcomes, pureVars, hostVars>>

\* the command line is parsed and the environment is what it is
InitMain ==
    /\ pc = "main"
    /\ cli \in Clis
    /\ env \in Envs
    /\ checkedOut = None
    /\ localBranches = {}
    /\ worktrees = {}
    /\ rootPath = <<>> /\ tree = {} /\ files = {} /\ unreadable = {}
    /\ enumOrder = <<>>
    /\ InitIdleRun
    /\ input = <<>>
    /\ confirmed = FALSE
    /\ branches = <<>>
    /\ target = None

NextMain ==
    \/ main
    \/ main_List
    \/ main_Status
    \/ main_Pull
    \/ main_Clean
    \/ main_None

SpecMain == InitMain /\ [][NextMain]_vars

-----------------------------------------------------------------------------
(* The file system, read off the tree without the program's functions *)

IsPrefix(p, q) ==
    Len(p) <= Len(q) /\ SubSeq(q, 1, Len(p)) = p

IsProperPrefix(p, q) ==
    Len(p) < Len(q) /\ SubSeq(q, 1, Len(p)) = p

Abs(rel) ==
    rootPath \o rel

\* the directories: the root and the entries that are not files
IsDirectory(rel) ==
    rel = <<>> \/ (rel \in tree /\ rel \notin files)

AllDirectories ==
    {<<>>} \cup (tree \ files)

\* a directory with an immediate child directory named .git
IsRepository(rel) ==
    /\ IsDirectory(rel)
    /\ Append(rel, GIT_DIR) \in tree
    /\ Append(rel, GIT_DIR) \notin files

\* the final segment of a path, if it has one
LastSegment(path) ==
    IF path = <<>> THEN None ELSE Some(path[Len(path)])

\* the directory levels the scanner works through: the root, and below it
\* every directory whose ancestors and itself are not repositories
IsLevel(rel) ==
    /\ IsDirectory(rel)
    /\ \A k \in 0..Len(rel) : ~IsRepository(SubSeq(rel, 1, k))

\* the immediate children of a level that are repositories, as read_dir
\* yields them
RepositoriesOf(rel) ==
    LET kids == SelectSeq(enumOrder, LAMBDA n : IsRepository(Append(rel, n)))
    IN  [i \in 1..Len(kids) |-> [name |-> kids[i], path |-> Abs(Append(rel, kids[i]))]]

ProjectLevels ==
    {rel \in AllDirectories : IsLevel(rel) /\ RepositoriesOf(rel) # <<>>}

Scanned ==
    pc = "scanned"

-----------------------------------------------------------------------------
(* Claims about scan *)

\* C1 as stated: when the root (which can be listed) has an immediate child
\* directory named .git, scan returns exactly one Project with repos = none,
\* path = root and name = the last path segment of root, and lists nothing
\* but the root.
C1_NameIsLastSegment ==
    (Scanned /\ <<>> \notin unreadable /\ IsRepository(<<>>)) =>
        /\ scanned.ok
        /\ Len(scanned.projects) = 1
        /\ scanned.projects[1].repos = None
        /\ scanned.projects[1].path = rootPath
        /\ Some(scanned.projects[1].name) = LastSegment(rootPath)
        /\ scanned.visited = <<rootPath>>

\* C1 (amended): when the root (which can be listed) has an immediate child
\* directory named .git, scan returns exactly one Project with repos = none,
\* path = root and name = the last path segment of root, or the placeholder
\* "Name_Unavailable" when the root path has no final segment; only the root
\* is listed, whatever lies below it.
C1_RootRepository ==
    (Scanned /\ <<>> \notin unreadable /\ IsRepository(<<>>)) =>
        /\ scanned.ok
        /\ Len(scanned.projects) = 1
        /\ scanned.projects[1].repos = None
        /\ scanned.projects[1].path = rootPath
        /\ scanned.projects[1].name =
              (IF LastSegment(rootPath).some
               THEN LastSegment(rootPath).val ELSE NAME_UNAVAILABLE)
        /\ scanned.visited = <<rootPath>>

\* a root that is a repository and has a named final segment was scanned,
\* with more repositories and directories below it
C1_Witness ==
    /\ Scanned
    /\ rootPath # <<>>
    /\ IsRepository(<<>>)
    /\ IsRepository(<<NameA>>)
    /\ <<NameB, NameA>> \in tree
    /\ scanned.ok

\* C2: a scan of a tree in which every directory can be listed and no
\* directory is named .git fails with NoProjectsFound and returns no Project.
C2_NoProjectsFound ==
    (/\ Scanned
     /\ unreadable = {}
     /\ \A rel \in tree \ files : LastSegment(rel) # Some(GIT_DIR)) =>
        /\ ~scanned.ok
        /\ scanned.err = [kind |-> "NoProjectsFound"]
        /\ scanned.projects = <<>>

\* a tree of several directories, none named .git, but with a regular file
\* of that name, was scanned
C2_Witness ==
    /\ Scanned
    /\ unreadable = {}
    /\ \A rel \in tree \ files : LastSegment(rel) # Some(GIT_DIR)
    /\ files # {}
    /\ Cardinality(tree \ files) >= 3
    /\ ~scanned.ok

\* the tree root/a/.git, root/b/a/.git, root/b/b/.git
ExampleTree ==
    {<<NameA>>, <<NameA, GIT_DIR>>, <<NameB>>,
     <<NameB, NameA>>, <<NameB, NameA, GIT_DIR>>,
     <<NameB, NameB>>, <<NameB, NameB, GIT_DIR>>}

\* C3: when the root is not a repository and the scan succeeds, the result
\* holds exactly one Project for each level (root included) with an immediate
\* child that is a repository and none for any other directory; the Project
\* has the name and path of its level, and its repos are exactly the level's
\* immediate children that are repositories, in enumeration order.  For
\* root/a/.git, root/b/a/.git, root/b/b/.git these are the root with [a] and
\* b with its two repositories.
C3_OneProjectPerLevel ==
    (Scanned /\ scanned.ok /\ ~IsRepository(<<>>)) =>
        /\ \A rel \in ProjectLevels :
              Cardinality({i \in 1..Len(scanned.projects) :
                              scanned.projects[i].path = Abs(rel)}) = 1
        /\ \A i \in 1..Len(scanned.projects) :
              \E rel \in ProjectLevels :
                 /\ scanned.projects[i].path = Abs(rel)
                 /\ scanned.projects[i].name =
                       (IF Abs(rel) = <<>> THEN NAME_UNAVAILABLE
                        ELSE Abs(rel)[Len(Abs(rel))])
                 /\ scanned.projects[i].repos = Some(RepositoriesOf(rel))
        /\ (tree = ExampleTree /\ files = {}) =>
              /\ Len(scanned.projects) = 2
              /\ \E i \in 1..2 :
                    /\ scanned.projects[i].path = rootPath
                    /\ scanned.projects[i].repos =
                          Some(<< [name |-> NameA, path |-> Abs(<<NameA>>)] >>)
              /\ \E i \in 1..2 :
                    /\ scanned.projects[i].path = Abs(<<NameB>>)
                    /\ scanned.projects[i].name = NameB
                    /\ Len(scanned.projects[i].repos.val) = 2
                    /\ {scanned.projects[i].repos.val[k].name : k \in 1..2}
                          = {NameA, NameB}

\* the scan of root/a/.git, root/b/a/.git, root/b/b/.git has returned
C3_Witness ==
    /\ Scanned
    /\ tree = ExampleTree
    /\ files = {}
    /\ scanned.ok
    /\ Len(scanned.projects) = 2

\* C4: a successful scan returns at least one Project, and a Project with
\* repos = some(list) has at least one Directory in the list.
C4_NoEmptyRepos ==
    (Scanned /\ scanned.ok) =>
        /\ scanned.projects # <<>>
        /\ \A i \in 1..Len(scanned.projects) :
              scanned.projects[i].repos.some =>
                  Len(scanned.projects[i].repos.val) >= 1

\* a scan has returned Projects with repos, having gone through a level
\* that holds no repository
C4_Witness ==
    /\ Scanned
    /\ scanned.ok
    /\ Len(scanned.projects) >= 2
    /\ \E rel \in AllDirectories : IsLevel(rel) /\ RepositoriesOf(rel) = <<>>
    /\ \A i \in 1..Len(scanned.projects) : scanned.projects[i].repos.some

\* C5: no directory strictly beneath a repository is listed; no Project has
\* a path at or beneath a repository of some repos list; no repository of a
\* repos list lies inside another repository.
C5_NoDescentIntoRepositories ==
    Scanned =>
        /\ \A v \in 1..Len(scanned.visited) :
              \A k \in 0..(Len(Rel(scanned.visited[v])) - 1) :
                 ~IsRepository(SubSeq(Rel(scanned.visited[v]), 1, k))
        /\ \A i, j \in 1..Len(scanned.projects) :
              scanned.projects[j].repos.some =>
                 \A k \in 1..Len(scanned.projects[j].repos.val) :
                    LET repo == scanned.projects[j].repos.val[k]
                    IN  /\ ~IsPrefix(repo.path, scanned.projects[i].path)
                        /\ \A q \in 0..(Len(Rel(repo.path)) - 1) :
                              ~IsRepository(SubSeq(Rel(repo.path), 1, q))

\* a scan has reported a repository that holds another repository
C5_Witness ==
    /\ Scanned
    /\ scanned.ok
    /\ ~IsRepository(<<>>)
    /\ IsRepository(<<NameA>>)
    /\ IsRepository(<<NameA, NameB>>)
    /\ \E i \in 1..Len(scanned.projects) : scanned.projects[i].path = rootPath

-----------------------------------------------------------------------------
(* Claims about determine_target and user_confirmed *)

Range(seq) ==
    {seq[i] : i \in 1..Len(seq)}

AffirmativeTokens ==
    {<<y>> : y \in {"y", "Y"}}
        \cup {<<y, e, z>> : y \in {"y", "Y"}, e \in {"e", "E"}, z \in {"s", "S"}}

Whitespace == {" ", "\n", "\t", "\r"}

\* the line is an affirmative token between two runs of whitespace
IsAffirmative(line) ==
    \E i \in 1..(Len(line) + 1), j \in 0..Len(line) :
       /\ \A k \in 1..(i - 1) : line[k] \in Whitespace
       /\ \A k \in (j + 1)..Len(line) : line[k] \in Whitespace
       /\ i <= j
       /\ SubSeq(line, i, j) \in AffirmativeTokens

\* C7: user_confirmed is true exactly of the lines that, with the
\* whitespace around them removed, are "y" or "yes" in any ASCII case; the
\* empty line and a line of whitespace are declined.
C7_ConfirmedIffAffirmative ==
    (pc = "answered") =>
        /\ confirmed <=> IsAffirmative(input)
        /\ (\A k \in 1..Len(input) : input[k] \in Whitespace) => ~confirmed

\* a "yes" in mixed case, followed by the line end, was accepted
C7_Witness ==
    /\ pc = "answered"
    /\ input = <<"Y", "e", "S", "\n">>
    /\ confirmed

-----------------------------------------------------------------------------
(* Claims about the batch dispatcher *)

BatchStarted ==
    pc \in {"for_project", "custom_cwd_cmd", "print_repository", "done", "panicked"}

WildcardTokens ==
    {<<a, l, m>> : a \in {"a", "A"}, l \in {"l", "L"}, m \in {"l", "L"}}

FoldCase(str) ==
    [i \in 1..Len(str) |->
        IF str[i] \in DOMAIN UpperToLower THEN UpperToLower[str[i]] ELSE str[i]]

\* the scanned projects whose name is the selector but for ASCII case
Matching ==
    SelectSeq(scanned.projects, LAMBDA p : FoldCase(p.name) = FoldCase(selector))

\* the projects a batch works on
SelectedProjects ==
    IF selector \in WildcardTokens THEN scanned.projects
    ELSE IF Matching = <<>> THEN <<>> ELSE <<Matching[1]>>

RECURSIVE RepositoriesIn(_)
\* the repositories of a list of projects, project by project
RepositoriesIn(projects) ==
    IF projects = <<>> THEN <<>>
    ELSE (IF Head(projects).repos.some THEN Head(projects).repos.val ELSE <<>>)
            \o RepositoriesIn(Tail(projects))

\* the processes a batch has to spawn, in order
ExpectedSpawns ==
    LET repos == RepositoriesIn(SelectedProjects)
    IN  [i \in 1..Len(repos) |-> [arg |-> command, cwd |-> repos[i].path]]

IsPrefixSeq(a, b) ==
    Len(a) <= Len(b) /\ SubSeq(b, 1, Len(a)) = a

\* C8: a batch spawns the git command once for every repository of every
\* selected project, project by project in scan order and repository by
\* repository in list order, whatever the earlier processes ended with (exit
\* code 0, a nonzero code, no code); having done so it returns success.
C8_EveryRepositoryOnce ==
    (BatchStarted /\ scanned.ok /\ SelectedProjects # <<>>) =>
        /\ IsPrefixSeq(spawned, ExpectedSpawns)
        /\ \A i, j \in 1..Len(spawned) : spawned[i].cwd = spawned[j].cwd => i = j
        /\ command \in {GIT_STATUS, GIT_PULL}
        /\ Len(outcomes) = Len(spawned) - (IF child = None THEN 0 ELSE 1)
        /\ (pc = "done") =>
              /\ spawned = ExpectedSpawns
              /\ result = Some(Ok)
        /\ (pc # "done") => result = None

\* a batch over two projects has returned, and its first process had ended
\* with exit code 128 or without a code
C8_Witness ==
    /\ pc = "done"
    /\ result = Some(Ok)
    /\ Len(scanned.projects) >= 2
    /\ Len(spawned) >= 2
    /\ outcomes[1].code \in {Some(128), None}
    /\ spawned[1].cwd # spawned[2].cwd

Header(project) ==
    [kind |-> "project", name |-> project.name, path |-> project.path]

\* the project headers written so far
Headers ==
    SelectSeq(out, LAMBDA line : line.kind = "project")

\* C9: when the selector is "all" in any ASCII case, for_project is called on
\* every scanned Project, once each and in scan order, also when a Project is
\* itself named "all".
C9_WildcardCoversEveryProject ==
    (BatchStarted /\ scanned.ok /\ selector \in WildcardTokens) =>
        /\ IsPrefixSeq(Headers,
              [i \in 1..Len(scanned.projects) |-> Header(scanned.projects[i])])
        /\ (pc = "done") =>
              /\ Len(Headers) = Len(scanned.projects)
              /\ result = Some(Ok)

\* a batch selected by "AlL" has gone through two projects, one named "all"
C9_Witness ==
    /\ pc = "done"
    /\ selector = <<"A", "l", "L">>
    /\ scanned.ok
    /\ Len(scanned.projects) >= 2
    /\ \E i \in 1..Len(scanned.projects) : scanned.projects[i].name = NameAll
    /\ Len(Headers) = Len(scanned.projects)

\* C10: when the scan fails, or the selector is not the wildcard and is no
\* scanned Project's name (ignoring case), the batch returns an error - the
\* scan's, or ProjectNotFound with the selector - and has spawned no process
\* and written no repository line.
C10_NothingTouchedOnLookupFailure ==
    (/\ BatchStarted
     /\ \/ ~scanned.ok
        \/ (selector \notin WildcardTokens /\ Matching = <<>>)) =>
        /\ pc = "done"
        /\ result = Some(Err(IF ~scanned.ok THEN scanned.err
                             ELSE [kind |-> "ProjectNotFound", name |-> selector]))
        /\ spawned = <<>>
        /\ child = None
        /\ \A i \in 1..Len(out) : out[i].kind \notin {"success", "error"}

\* a batch for a name no scanned project has, over a tree with repositories
C10_Witness ==
    /\ pc = "done"
    /\ scanned.ok
    /\ RepositoriesIn(scanned.projects) # <<>>
    /\ selector = NameUpperA
    /\ result = Some(Err([kind |-> "ProjectNotFound", name |-> NameUpperA]))

\* a directory the scanner lists: the root, and below it every directory
\* none of whose ancestors is a repository
IsListed(rel) ==
    /\ IsDirectory(rel)
    /\ \A k \in 0..(Len(rel) - 1) : ~IsRepository(SubSeq(rel, 1, k))

\* the scan did not fail on a directory that cannot be listed
NoReadError ==
    scanned.ok \/ scanned.err = [kind |-> "NoProjectsFound"]

\* C21 as stated: a scan fails on a directory that cannot be listed only
\* when that directory is the root; a directory below the root that cannot be
\* listed counts as one without repositories.
C21_OnlyTheRootFailsTheScan ==
    (Scanned /\ <<>> \notin unreadable) => NoReadError

\* C21: an entry of which is_dir() is false is dropped from the listing and
\* fails nothing; but every directory the scanner lists - the root and every
\* directory below it that has no repository among its ancestors - fails the
\* whole scan when it cannot be listed: the scan returns that read error
\* and no Project.  A directory that cannot be listed and lies below a
\* repository is never listed and fails nothing.
C21_UnlistableDirectoryFailsTheScan ==
    Scanned =>
        LET hit == {rel \in unreadable : IsListed(rel)}
        IN  /\ (hit # {}) =>
                  /\ ~scanned.ok
                  /\ scanned.projects = <<>>
                  /\ \E rel \in hit :
                        scanned.err = [kind |-> "ReadDir", path |-> Abs(rel)]
            /\ (hit = {}) => NoReadError

\* root/a is a repository, root/b cannot be listed: the scan has failed on
\* root/b
C21_Witness ==
    /\ Scanned
    /\ IsRepository(<<NameA>>)
    /\ unreadable = {<<NameB>>}
    /\ ~scanned.ok
    /\ scanned.err = [kind |-> "ReadDir", path |-> Abs(<<NameB>>)]

\* the place of a name in the enumeration order
Place(name) ==
    CHOOSE i \in 1..Len(enumOrder) : enumOrder[i] = name

\* C24: in the list a scan returns, the Project of a level comes after every
\* Project found below that level; two Projects of which neither lies below
\* the other come in the enumeration order of the two children, of the
\* deepest level above both, that they lie in or below; so a Project of the
\* root, if there is one, is the last.
C24_PostOrder ==
    (Scanned /\ scanned.ok) =>
        \A i, j \in 1..Len(scanned.projects) :
           LET p == Rel(scanned.projects[i].path)
               q == Rel(scanned.projects[j].path)
               k == CHOOSE n \in 0..Len(p) :
                       /\ IsPrefix(SubSeq(p, 1, n), q)
                       /\ \A m \in (n + 1)..Len(p) : ~IsPrefix(SubSeq(p, 1, m), q)
           IN  /\ (i # j) => (p # q)
               /\ IsProperPrefix(p, q) => (j < i)
               /\ (p = <<>>) => (i = Len(scanned.projects))
               /\ (~IsPrefix(p, q) /\ ~IsPrefix(q, p) /\ i < j) =>
                     (Place(p[k + 1]) < Place(q[k + 1]))

\* root/a is a repository and is enumerated before root/b, which holds two
\* repositories: the scan has returned the Project of b and then the root's
C24_Witness ==
    /\ Scanned
    /\ scanned.ok
    /\ tree = ExampleTree
    /\ Place(NameA) < Place(NameB)
    /\ Len(scanned.projects) = 2
    /\ scanned.projects[1].path = Abs(<<NameB>>)
    /\ scanned.projects[2].path = rootPath

-----------------------------------------------------------------------------
(* Claims about the branch cleaner *)

\* both reads of handle_clean succeeded and clean has taken its first step
CleanActed ==
    /\ Len(outcomes) >= 2
    /\ outcomes[1].code = Some(0)
    /\ outcomes[2].code = Some(0)
    /\ pc # "clean"

\* the first of develop, main, master that the branch list read holds
PriorityTarget ==
    IF DEVELOP \in Range(branches) THEN Some(DEVELOP)
    ELSE IF MAIN \in Range(branches) THEN Some(MAIN)
    ELSE IF MASTER \in Range(branches) THEN Some(MASTER)
    ELSE None

\* the two processes handle_clean reads the repository with
ReadSpawns ==
    << [arg |-> "branch", args |-> <<SHOW_CURRENT>>], [arg |-> "branch", args |-> <<>>] >>

IsCheckout(cmd) == cmd.arg = "checkout"
IsPull(cmd) == cmd.arg = "pull"
IsDelete(cmd) == cmd.arg = "branch" /\ Len(cmd.args) = 2

\* the checkout, pull and delete processes spawned so far
MutatingSpawns ==
    SelectSeq(spawned, LAMBDA cmd : IsCheckout(cmd) \/ IsPull(cmd) \/ IsDelete(cmd))

\* the name `git branch --show-current` gives the checked-out branch
HeadName ==
    IF checkedOut.some THEN checkedOut.val ELSE <<>>

\* the repository is as the two reads found it
RepositoryUntouched ==
    /\ HeadName = current.val
    /\ localBranches = Range(branches) \cap BranchNames

\* C11: when the determined target is the current branch, the cleaner writes
\* the single line "Current branch is already <name>", asks nothing, reads
\* nothing from stdin, returns success and spawns no checkout, pull or delete.
C11_AlreadyOnTarget ==
    (CleanActed /\ PriorityTarget = current) =>
        /\ pc = "done"
        /\ out = << [kind |-> "already", branch |-> current.val] >>
        /\ input = <<>>
        /\ result = Some(Ok)
        /\ MutatingSpawns = <<>>
        /\ RepositoryUntouched

\* the cleaner has ended on main, in a repository without develop
C11_Witness ==
    /\ pc = "done"
    /\ CleanActed
    /\ current = Some(MAIN)
    /\ PriorityTarget = Some(MAIN)
    /\ BranchTest \in localBranches
    /\ out = << [kind |-> "already", branch |-> MAIN] >>

\* C12 as stated: when the branch list holds none of develop, main, master,
\* the cleaner writes "Unable to determine target branch to checkout to",
\* returns success and has invoked no subprocess at all.
C12_ZeroSubprocesses ==
    (CleanActed /\ PriorityTarget = None) =>
        /\ pc = "done"
        /\ out = << [kind |-> "unable"] >>
        /\ result = Some(Ok)
        /\ spawned = <<>>

\* C12: when the branch list holds none of develop, main, master, the cleaner
\* writes exactly "Unable to determine target branch to checkout to", asks
\* nothing, returns success, and the only subprocesses it has invoked are the
\* two that read the current branch and the branch list: no checkout, pull or
\* delete, and the repository is as it was.
C12_UnableMutatesNothing ==
    (CleanActed /\ PriorityTarget = None) =>
        /\ pc = "done"
        /\ out = << [kind |-> "unable"] >>
        /\ input = <<>>
        /\ result = Some(Ok)
        /\ spawned = ReadSpawns
        /\ MutatingSpawns = <<>>
        /\ RepositoryUntouched

\* the cleaner has ended in a repository whose branches are test and Main
C12_Witness ==
    /\ pc = "done"
    /\ CleanActed
    /\ localBranches = {BranchTest, BranchMainUpper}
    /\ checkedOut = Some(BranchTest)
    /\ out = << [kind |-> "unable"] >>

\* the user has been asked and the answer has been read
Answered ==
    /\ CleanActed
    /\ PriorityTarget # None
    /\ PriorityTarget # current
    /\ pc \notin {"get_user_input", "panicked on stdin"}

\* C13: when a target other than the current branch is determined and the
\* answer is not y / yes, the cleaner has written the planned change, the
\* prompt and then "Aborting", returns success and has spawned no checkout,
\* pull or delete; the checked-out branch and the branches are as they were.
C13_DeclineChangesNothing ==
    (Answered /\ ~IsAffirmative(input)) =>
        /\ pc = "done"
        /\ out = << [kind |-> "plan", target |-> PriorityTarget.val,
                     current |-> current.val],
                    [kind |-> "prompt"],
                    [kind |-> "aborting"] >>
        /\ result = Some(Ok)
        /\ MutatingSpawns = <<>>
        /\ spawned = ReadSpawns
        /\ RepositoryUntouched

\* on test with develop listed, the user answered "n"
C13_Witness ==
    /\ pc = "done"
    /\ Answered
    /\ input = <<"n", "\n">>
    /\ current = Some(BranchTest)
    /\ PriorityTarget = Some(DEVELOP)
    /\ Len(out) = 3

\* the user was asked and gave y / yes
Accepted ==
    Answered /\ IsAffirmative(input)

\* the processes spawned after the two reads
Cleanup ==
    SubSeq(spawned, 3, Len(spawned))

\* the three steps of a cleanup, in order
PlannedSteps ==
    << [arg |-> "checkout", args |-> <<PriorityTarget.val>>],
       [arg |-> "pull", args |-> <<>>],
       [arg |-> "branch", args |-> <<DELETE_FLAG, current.val>>] >>

\* the exit code of the i-th step of the cleanup
StepCode(i) ==
    outcomes[2 + i].code

\* the kinds of error of the i-th step
StepErrors ==
    << {"CheckoutCode", "Checkout"}, {"PullCode", "Pull"}, {"DeleteCode", "Delete"} >>

\* C14: after the user accepts, the processes the cleaner spawns are a
\* prefix of checkout <target>, pull, branch -d <current>, each once and in
\* that order; pull is spawned only after checkout ended with 0 and the delete
\* only after both ended with 0; the cleaner returns when a step fails, with
\* an error of that step, and returns success only after all three ended
\* with 0.
C14_CheckoutPullDeleteInOrder ==
    Accepted =>
        /\ pc \in {"checkout", "checkout.wait", "pull", "pull.wait", "delete",
                   "delete.wait", "done", "panicked"}
        /\ IsPrefixSeq(Cleanup, PlannedSteps)
        /\ (Len(Cleanup) >= 2) => (StepCode(1) = Some(0))
        /\ (Len(Cleanup) >= 3) => (StepCode(1) = Some(0) /\ StepCode(2) = Some(0))
        /\ result.some <=> (pc = "done")
        /\ (pc = "done") =>
              /\ Len(outcomes) = Len(spawned)
              /\ Len(Cleanup) >= 1
              /\ IF StepCode(Len(Cleanup)) = Some(0)
                 THEN Len(Cleanup) = 3 /\ result = Some(Ok)
                 ELSE /\ ~result.val.ok
                      /\ result.val.err.val.kind \in StepErrors[Len(Cleanup)]

\* from test to develop: all three steps ran and the cleaner returned success
C14_Witness ==
    /\ pc = "done"
    /\ Accepted
    /\ current = Some(BranchTest)
    /\ Cleanup = << [arg |-> "checkout", args |-> <<DEVELOP>>],
                    [arg |-> "pull", args |-> <<>>],
                    [arg |-> "branch", args |-> <<DELETE_FLAG, BranchTest>>] >>
    /\ result = Some(Ok)
    /\ BranchTest \notin localBranches

\* C18: a cleanup is not rolled back.  When the checkout ended with 0 and the
\* pull did not, the cleaner returns the pull's error, the checked-out branch
\* is the target and not the branch the cleaner started on, every branch is
\* still there (the one it started on included) and no delete was spawned;
\* when the checkout did not end with 0, the checked-out branch and the
\* branches are as they were.
C18_NoRollback ==
    (Accepted /\ pc = "done") =>
        /\ (StepCode(1) = Some(0) /\ Len(Cleanup) = 2) =>
              /\ ~result.val.ok
              /\ result.val.err.val.kind \in {"PullCode", "Pull"}
              /\ checkedOut = PriorityTarget
              /\ checkedOut # current
              /\ localBranches = Range(branches) \cap BranchNames
              /\ (current.val \in Range(branches)) => (current.val \in localBranches)
              /\ \A i \in 1..Len(spawned) : ~IsDelete(spawned[i])
        /\ (StepCode(1) # Some(0)) =>
              /\ Len(Cleanup) = 1
              /\ ~result.val.ok
              /\ result.val.err.val.kind \in {"CheckoutCode", "Checkout"}
              /\ RepositoryUntouched

\* from test, the checkout of main ended with 0 and the pull with 1
C18_Witness ==
    /\ pc = "done"
    /\ Accepted
    /\ current = Some(BranchTest)
    /\ checkedOut = Some(MAIN)
    /\ BranchTest \in localBranches
    /\ Len(outcomes) = 4
    /\ outcomes[4].code = Some(1)
    /\ result = Some(Err(PullCode(1)))

\* the errors the three operations give for the exit codes other than 0:
\* operation, branch argument, exit code, error
Failures ==
    {<<"checkout", b, c, checkout_result(b, c)>> :
        b \in BranchNames, c \in ExitCodes \ {Some(0)}}
    \cup {<<"pull", <<>>, c, pull_result(c)>> : c \in ExitCodes \ {Some(0)}}
    \cup {<<"delete", b, c, delete_result(b, c)>> :
        b \in BranchNames \cup {<<>>}, c \in ExitCodes \ {Some(0)}}

\* the error a step has to give: its kind, its branch argument if it has
\* one, and the code if there is one
ExpectedError(step, branch, code) ==
    IF step = 2
    THEN (IF code.some THEN [kind |-> "PullCode", code |-> code.val]
          ELSE [kind |-> "Pull"])
    ELSE LET op == IF step = 1 THEN "Checkout" ELSE "Delete"
         IN  IF code.some
             THEN [kind |-> IF step = 1 THEN "CheckoutCode" ELSE "DeleteCode",
                   branch |-> branch, code |-> code.val]
             ELSE [kind |-> op, branch |-> branch]

\* C20: checkout, pull and delete take exit code 0 for success (the cleaner
\* goes on, or returns success after the delete); for another exit code the
\* cleaner returns the operation's coded error with the branch argument
\* (target of the checkout, branch of the delete; pull has none) and the code;
\* without an exit code it returns the operation's uncoded error; and the
\* error value tells the operation, the branch argument and the code apart
\* from every other.
C20_OutcomeToResult ==
    /\ \A f \in Failures : ~f[4].ok
    /\ \A f, g \in Failures : (f[4] = g[4]) => (f = g)
    /\ \A b \in BranchNames :
          checkout_result(b, Some(0)) = Ok /\ delete_result(b, Some(0)) = Ok
    /\ pull_result(Some(0)) = Ok
    /\ (Accepted /\ pc = "done") =>
          LET last == Len(Cleanup)
              arg  == IF last = 1 THEN PriorityTarget.val ELSE current.val
          IN  /\ \A i \in 1..(last - 1) : StepCode(i) = Some(0)
              /\ IF StepCode(last) = Some(0)
                 THEN result = Some(Ok)
                 ELSE /\ ~result.val.ok
                      /\ result.val.err.val = ExpectedError(last, arg, StepCode(last))

\* the delete of test ended with 1, and in another run without an exit code
C20_Witness ==
    /\ pc = "done"
    /\ Accepted
    /\ Len(Cleanup) = 3
    /\ StepCode(3) = Some(1)
    /\ result = Some(Err([kind |-> "DeleteCode", branch |-> BranchTest, code |-> 1]))

\* C25: a cleanup spawns at most one delete; its argument is the branch that
\* was read as current, which is not the determined target and not the
\* branch checked out when the delete is spawned, and it is spawned only
\* after the checkout of the target and the pull both ended with 0.
C25_DeleteOnlyTheBranchLeft ==
    LET deletes == {i \in 1..Len(spawned) : IsDelete(spawned[i])}
    IN  /\ Cardinality(deletes) <= 1
        /\ \A i \in deletes :
              /\ i = 5
              /\ Accepted
              /\ spawned[i].args[2] = current.val
              /\ current.val = trim(outcomes[1].stdout)
              /\ Some(spawned[i].args[2]) # PriorityTarget
              /\ Some(spawned[i].args[2]) # target
              /\ IsCheckout(spawned[3]) /\ spawned[3].args = <<PriorityTarget.val>>
              /\ IsPull(spawned[4])
              /\ outcomes[3].code = Some(0)
              /\ outcomes[4].code = Some(0)
              /\ (pc = "delete.wait") =>
                    (checkedOut = PriorityTarget /\ HeadName # spawned[i].args[2])

\* the delete of test is in flight, master being checked out
C25_Witness ==
    /\ pc = "delete.wait"
    /\ child = Some([arg |-> "branch", args |-> <<DELETE_FLAG, BranchTest>>])
    /\ checkedOut = Some(MASTER)
    /\ BranchTest \in localBranches

\* C26: when the read of the current branch does not end with 0 the cleaner
\* returns that read's error (coded or uncoded) and has spawned nothing else,
\* not even the read of the branch list; when the read of the branch list
\* does not end with 0 the cleaner returns that read's error; in both cases
\* no target is determined, nothing is written or asked, and no checkout,
\* pull or delete is spawned.
C26_ReadErrorEndsTheCleaner ==
    /\ (Len(spawned) >= 2) => (outcomes[1].code = Some(0))
    /\ (Len(outcomes) >= 1 /\ outcomes[1].code # Some(0)) =>
          /\ pc = "done"
          /\ result = Some(Err(IF outcomes[1].code # None
                               THEN [kind |-> "CurrentBranchCode",
                                     code |-> outcomes[1].code.val]
                               ELSE [kind |-> "CurrentBranch"]))
          /\ spawned = <<ReadSpawns[1]>>
          /\ target = None /\ out = <<>> /\ input = <<>>
          /\ current = None /\ branches = <<>>
    /\ (Len(outcomes) >= 2 /\ outcomes[2].code # Some(0)) =>
          /\ pc = "done"
          /\ result = Some(Err(IF outcomes[2].code # None
                               THEN [kind |-> "ReadBranchesCode",
                                     code |-> outcomes[2].code.val]
                               ELSE [kind |-> "ReadBranches"]))
          /\ spawned = ReadSpawns
          /\ target = None /\ out = <<>> /\ input = <<>>
          /\ branches = <<>>

\* the read of the branch list ended with 128 after the current branch was read
C26_Witness ==
    /\ pc = "done"
    /\ current = Some(BranchTest)
    /\ Len(outcomes) = 2
    /\ outcomes[2].code = Some(128)
    /\ result = Some(Err(ReadBranchesCode(128)))


\* the lines of the listing `git branch` printed
ListingLines ==
    Cardinality({i \in 1..Len(outcomes[2].stdout) : outcomes[2].stdout[i] = "\n"})

\* a name without the marker and without whitespace at either end
IsBareName(name) ==
    /\ \A i \in 1..Len(name) : name[i] # "*"
    /\ (name # <<>>) => (name[1] \notin Whitespace /\ name[Len(name)] \notin Whitespace)

\* C22 as stated: when both reads ended with 0, the parsed list has one name
\* for every line of the listing, each without the marker and without
\* whitespace at either end; the names are the names of the repository's
\* branches, and the current branch as read is one of them.
C22_ParsedListIsTheBranches ==
    (pc = "clean") =>
        /\ Len(branches) = ListingLines
        /\ \A i \in 1..Len(branches) : IsBareName(branches[i])
        /\ Range(branches) = localBranches
        /\ current.val \in Range(branches)

\* on test, with develop checked out in a linked worktree: the parsed list
\* holds "+ develop" and not develop
C22_Witness ==
    /\ pc = "clean"
    /\ checkedOut = Some(BranchTest)
    /\ localBranches = {DEVELOP, MAIN, BranchTest}
    /\ worktrees = {DEVELOP}
    /\ branches = << <<"+", " ">> \o DEVELOP, MAIN, BranchTest >>
    /\ determine_target(branches) = Some(MAIN)

-----------------------------------------------------------------------------
(* Claims about the batch dispatcher and its processes *)

\* the lines print_repository wrote
RepositoryLines ==
    SelectSeq(out, LAMBDA line : line.kind \in {"success", "error"})

\* C16: when the root is itself a repository, so that the selected Project is
\* the parent-level one (repos = none), a batch status / pull writes the
\* project's header and nothing else: it spawns no process, writes no
\* repository line and returns success.
C16_ParentLevelProjectIsSkipped ==
    (BatchStarted /\ scanned.ok /\ IsRepository(<<>>) /\ SelectedProjects # <<>>) =>
        /\ \A i \in 1..Len(SelectedProjects) : ~SelectedProjects[i].repos.some
        /\ pc \in {"for_project", "done"}
        /\ spawned = <<>>
        /\ child = None
        /\ RepositoryLines = <<>>
        /\ IsPrefixSeq(out, <<Header(SelectedProjects[1])>>)
        /\ (pc = "for_project" /\ queue = <<>>) => (out # <<>>)
        /\ (pc = "done") =>
              /\ result = Some(Ok)
              /\ out = <<Header(SelectedProjects[1])>>

\* `pull a` on a root named a that is a repository and has a repository below
C16_Witness ==
    /\ pc = "done"
    /\ command = "pull"
    /\ selector = NameA
    /\ IsRepository(<<>>)
    /\ IsRepository(<<NameAll>>)
    /\ result = Some(Ok)
    /\ spawned = <<>>
    /\ Len(out) = 1

\* C17: at every point of a batch and of a branch cleanup at most one git
\* process is in flight: the processes spawned are those whose result has
\* been consumed and at most one more, the one in flight, so a process is
\* spawned only when none is in flight; and in a batch the line of every
\* result consumed has been written by then.
C17_OneProcessInFlight ==
    /\ Len(spawned) - Len(outcomes) \in {0, 1}
    /\ (child # None) <=> (Len(spawned) = Len(outcomes) + 1)
    /\ (child # None) => (child.val = spawned[Len(spawned)])
    /\ (command \in {"status", "pull"}) =>
          Len(RepositoryLines) =
              Cardinality({i \in 1..Len(outcomes) : outcomes[i].code.some})

\* the second process of a batch is in flight; the first ended with 0 and its
\* line is written
C17_Witness ==
    /\ command = "status"
    /\ Len(spawned) = 2
    /\ child # None
    /\ Len(outcomes) = 1
    /\ outcomes[1].code = Some(0)
    /\ Len(RepositoryLines) = 1

\* the line a result has to give
ResultLine(repo, res) ==
    IF res.code = Some(0)
    THEN << [kind |-> "success", repo |-> repo.name, output |-> res.stdout] >>
    ELSE IF res.code # None
    THEN << [kind |-> "error", repo |-> repo.name, code |-> res.code.val] >>
    ELSE << >>

RECURSIVE ExpectedLines(_, _)
\* what a batch has written when it has entered the given projects and has
\* consumed the results in `outcomes`; k repositories precede the projects
ExpectedLines(projects, k) ==
    IF projects = <<>> THEN <<>>
    ELSE LET p  == Head(projects)
             rs == IF p.repos.some THEN p.repos.val ELSE <<>>
         IN  <<Header(p)>>
                \o Concat([i \in 1..Len(rs) |->
                              IF k + i <= Len(outcomes)
                              THEN ResultLine(rs[i], outcomes[k + i]) ELSE <<>>])
                \o ExpectedLines(Tail(projects), k + Len(rs))

\* C19: what a batch has written is, project by project in the order they
\* were entered, the project's header and then, repository by repository in
\* the order they were processed, one line with the repository's name and
\* the captured output for exit code 0, one line with the name and the code
\* for another exit code, and nothing for a process without exit code.
C19_LinePerResult ==
    (BatchStarted /\ scanned.ok /\ SelectedProjects # <<>>) =>
        out = ExpectedLines(SubSeq(SelectedProjects, 1, Len(Headers)), 0)

\* a batch over two repositories: the first process ended without an exit
\* code, the second with 0
C19_Witness ==
    /\ pc = "done"
    /\ Len(outcomes) = 2
    /\ outcomes[1].code = None
    /\ outcomes[2] = [code |-> Some(0), stdout |-> "changes"]
    /\ Len(out) = 2
    /\ out[2].kind = "success"
    /\ out[2].output = "changes"

\* the places in the scanned list of the projects named as the selector, but
\* for ASCII case
MatchingPlaces ==
    {i \in 1..Len(scanned.projects) :
        FoldCase(scanned.projects[i].name) = FoldCase(selector)}

\* the paths of the repositories of a project
RepositoryPaths(project) ==
    IF project.repos = None THEN {}
    ELSE {project.repos.val[r].path : r \in 1..Len(project.repos.val)}

\* C23: with a selector that is not the wildcard, a batch enters one Project
\* only, the first in scan order whose name is the selector but for ASCII
\* case: it writes that Project's header and no other, spawns its processes
\* in that Project's repositories only, and spawns none in a repository of a
\* later Project of that name.
C23_FirstMatchOnly ==
    (BatchStarted /\ scanned.ok /\ selector \notin WildcardTokens
        /\ MatchingPlaces # {}) =>
        LET first == scanned.projects[CHOOSE i \in MatchingPlaces :
                                          \A j \in MatchingPlaces : i <= j]
        IN  /\ IsPrefixSeq(Headers, <<Header(first)>>)
            /\ \A k \in 1..Len(spawned) : spawned[k].cwd \in RepositoryPaths(first)
            /\ \A i \in MatchingPlaces :
                  (scanned.projects[i] # first) =>
                      \A k \in 1..Len(spawned) :
                         spawned[k].cwd \notin RepositoryPaths(scanned.projects[i])
            /\ (pc = "done") =>
                  /\ Headers = <<Header(first)>>
                  /\ {spawned[k].cwd : k \in 1..Len(spawned)} = RepositoryPaths(first)
                  /\ result = Some(Ok)

\* `status A` below a root named a that holds a repository and a directory a
\* with a repository: two Projects are named a, and the batch ran in the
\* repository of the first
C23_Witness ==
    /\ pc = "done"
    /\ selector = NameUpperA
    /\ Cardinality(MatchingPlaces) = 2
    /\ Len(spawned) = 1
    /\ spawned[1].cwd \in RepositoryPaths(scanned.projects[1])
    /\ RepositoryPaths(scanned.projects[2]) # {}

-----------------------------------------------------------------------------
(* Claims about the resolution of the root *)

\* the variable the root is looked up in when no path is given
LookedUp ==
    IF cli.override_default # None THEN cli.override_default.val ELSE "DEV_DIR"

\* the root by precedence: the path option, else the value of the overriding
\* variable, else the value of DEV_DIR; none when the variable is not defined
ExpectedRoot ==
    IF cli.path # None THEN cli.path
    ELSE IF env[LookedUp] \in {Value(p) : p \in EnvPaths} THEN Some(env[LookedUp].val)
    ELSE None

Handlers ==
    {"handle_list", "handle_status", "handle_pull", "handle_clean"}

\* C15: the root is the path option when there is one, whatever the
\* environment; else the value of the variable named by the override option
\* when there is one, and never the value of DEV_DIR in its place; else the
\* value of DEV_DIR.  When the variable looked up is not defined the process
\* returns "<name> is not defined!" and exits non-zero, and no handler is
\* entered, nothing is scanned, spawned or written, whatever the command
\* (list, status, pull, clean, none).
C15_RootResolution ==
    (pc # "main") =>
        IF ExpectedRoot # None
        THEN /\ rootPath = ExpectedRoot.val
             /\ pc \in Handlers \cup {"match", "exit"}
             /\ (pc = "exit") =>
                   (cli.command = None /\ result = Some(Ok) /\ exit_code = 0)
             /\ (pc \in Handlers) => (cli.command # None /\ result = None)
        ELSE /\ pc = "exit"
             /\ result = Some(Err([kind |-> "NotDefined", name |-> LookedUp]))
             /\ exit_code # 0
             /\ rootPath = <<>>
             /\ scanned = NoScan
             /\ command = "none"
             /\ spawned = <<>>
             /\ out = <<>>

\* `please -o MY_DIR clean` with MY_DIR not defined and DEV_DIR defined
C15_Witness ==
    /\ pc = "exit"
    /\ cli = [path |-> None, override_default |-> Some("MY_DIR"),
              command |-> Some([kind |-> "clean"])]
    /\ env["MY_DIR"] = Unset
    /\ env["DEV_DIR"] = Value(<<NameA>>)
    /\ result = Some(Err([kind |-> "NotDefined", name |-> "MY_DIR"]))


====
